---- MODULE Spec2Model ----
(***************************************************************************)
(* The object/folder management layer of bucket.py (class Bucket) over a   *)
(* flat key -> object store.  Keys are sequences of one-character strings, *)
(* objects are identified by their content (ETag).  Every method of Bucket *)
(* is an operator from a machine state m (the store, the number of store   *)
(* requests issued, the failure the store is about to produce) to a result *)
(* (the new machine state, the returned Python value, the raised           *)
(* exception).                                                             *)
(***************************************************************************)
EXTENDS Integers, Sequences, FiniteSets, TLC

VARIABLES store, last, chain, frame

vars == <<store, last, chain, frame>>

(***************************************************************************)
(* Bounds.                                                                 *)
(***************************************************************************)
\* the store returns at most 1..MaxPage keys per list page (1000 in S3)
MaxPage == 2
\* the store request (1st .. MaxFailAt-th of an operation) that may fail
MaxFailAt == 3

(***************************************************************************)
(* Strings (keys) and Python values.                                       *)
(***************************************************************************)
None == <<>>

\* the code point of a character: the store orders keys by their bytes
Ord(c) ==
    CASE c = "/" -> 47
      [] c = "a" -> 97
      [] c = "f" -> 102
      [] c = "n" -> 110
      [] c = "x" -> 120
      [] c = "y" -> 121

RECURSIVE KeyLess(_, _)
KeyLess(k1, k2) ==
    IF k1 = <<>> THEN k2 # <<>>
    ELSE IF k2 = <<>> THEN FALSE
    ELSE IF Ord(Head(k1)) # Ord(Head(k2)) THEN Ord(Head(k1)) < Ord(Head(k2))
    ELSE KeyLess(Tail(k1), Tail(k2))

\* the keys of S in the store's order: the i-th is the key with i - 1 keys
\* of S before it
SortedKeys(S) ==
    [i \in 1..Cardinality(S) |->
        CHOOSE k \in S : Cardinality({j \in S : KeyLess(j, k)}) = i - 1]

endswith(s, c) == Len(s) > 0 /\ s[Len(s)] = c

startswith(s, p) == Len(p) <= Len(s) /\ SubSeq(s, 1, Len(p)) = p

\* s.replace(old, new, 1): the first occurrence of old in s becomes new
str_replace(s, old, new) ==
    LET at == {i \in 1..(Len(s) - Len(old) + 1) : SubSeq(s, i, i + Len(old) - 1) = old}
    IN  IF at = {} THEN s
        ELSE LET i == CHOOSE j \in at : \A k \in at : j <= k
             IN  SubSeq(s, 1, i - 1) \o new \o SubSeq(s, i + Len(old), Len(s))

\* folder_name if folder_name.endswith('/') else folder_name + '/'
slashed(name) == IF endswith(name, "/") THEN name ELSE name \o <<"/">>

PyFalse == [tag |-> "bool", n |-> 0, keys |-> <<>>]
PyTrue == [tag |-> "bool", n |-> 1, keys |-> <<>>]
PyNone == [tag |-> "None", n |-> 0, keys |-> <<>>]
PyInt(i) == [tag |-> "int", n |-> i, keys |-> <<>>]
PyList(ks) == [tag |-> "list", n |-> 0, keys |-> ks]
PyDict(etag) == [tag |-> "dict", n |-> etag, keys |-> <<>>]
PyStr(k) == [tag |-> "str", n |-> 0, keys |-> k]

\* Python truthiness of a returned value
Truthy(v) ==
    CASE v.tag = "bool" -> v.n = 1
      [] v.tag = "None" -> FALSE
      [] v.tag = "int" -> v.n # 0
      [] v.tag = "list" -> v.keys # <<>>
      [] v.tag = "dict" -> TRUE
      [] v.tag = "str" -> v.keys # <<>>

Min(a, b) == IF a < b THEN a ELSE b

(***************************************************************************)
(* The store client (self.client).  m.store is the bucket, m.calls the     *)
(* number of requests issued by the running operation, m.writes the number *)
(* of put/transfer/copy requests among them.  Request number m.failAt      *)
(* fails: with a service error carrying an error code (ClientError) when   *)
(* m.failKind = "code", with an error that has no response (a connection   *)
(* error) when m.failKind = "nocode".                                      *)
(***************************************************************************)
Machine(s, page, failAt, failKind) ==
    [store |-> s, page |-> page, failAt |-> failAt, failKind |-> failKind,
     calls |-> 0, writes |-> 0]

Tick(m) == [m EXCEPT !.calls = @ + 1]

Faulty(m) == m.failAt = m.calls + 1

FaultExc(m) == IF m.failKind = "code" THEN "ClientError" ELSE "ConnectionError"

FaultCode(m) == IF m.failKind = "code" THEN "500" ELSE "none"

\* an exception object has a .response only when it is a ClientError
HasResponse(exc) == exc = "ClientError"

head_object(m, Key) ==
    IF Faulty(m)
    THEN [m |-> Tick(m), exc |-> FaultExc(m), code |-> FaultCode(m), ETag |-> 0]
    ELSE IF Key \in DOMAIN m.store
    THEN [m |-> Tick(m), exc |-> "none", code |-> "none", ETag |-> m.store[Key]]
    ELSE [m |-> Tick(m), exc |-> "ClientError", code |-> "404", ETag |-> 0]

Put(s, Key, etag) == [k \in DOMAIN s \cup {Key} |-> IF k = Key THEN etag ELSE s[k]]

Remove(s, Keys) == [k \in DOMAIN s \ Keys |-> s[k]]

Write(m) == [Tick(m) EXCEPT !.writes = @ + 1]

client_upload_file(m, file, Key) ==
    IF Faulty(m)
    THEN [m |-> Write(m), exc |-> FaultExc(m), code |-> FaultCode(m)]
    ELSE [m |-> [Write(m) EXCEPT !.store = Put(m.store, Key, file.content)],
          exc |-> "none", code |-> "none"]

\* a zero-byte object: put_object without a Body
put_object(m, Key) ==
    IF Faulty(m)
    THEN [m |-> Write(m), exc |-> FaultExc(m), code |-> FaultCode(m)]
    ELSE [m |-> [Write(m) EXCEPT !.store = Put(m.store, Key, 0)],
          exc |-> "none", code |-> "none"]

copy_object(m, Source, Key) ==
    IF Faulty(m)
    THEN [m |-> Write(m), exc |-> FaultExc(m), code |-> FaultCode(m)]
    ELSE IF Source \notin DOMAIN m.store
    THEN [m |-> Write(m), exc |-> "ClientError", code |-> "NoSuchKey"]
    ELSE IF Source = Key
    THEN [m |-> Write(m), exc |-> "ClientError", code |-> "InvalidRequest"]
    ELSE [m |-> [Write(m) EXCEPT !.store = Put(m.store, Key, m.store[Source])],
          exc |-> "none", code |-> "none"]

\* the store does not error on a missing key
client_delete_object(m, Key) ==
    IF Faulty(m)
    THEN [m |-> Tick(m), exc |-> FaultExc(m), code |-> FaultCode(m)]
    ELSE [m |-> [Tick(m) EXCEPT !.store = Remove(m.store, {Key})],
          exc |-> "none", code |-> "none"]

delete_objects(m, Keys) ==
    IF Faulty(m)
    THEN [m |-> Tick(m), exc |-> FaultExc(m), code |-> FaultCode(m)]
    ELSE [m |-> [Tick(m) EXCEPT !.store = Remove(m.store, Keys)],
          exc |-> "none", code |-> "none"]

\* one page: the keys with the prefix after the continuation token, in key
\* order, at most MaxKeys of them; Contents = <<>> stands for a response
\* without 'Contents'; the token is the last key of a truncated page
list_objects_v2(m, Prefix, ContinuationToken, MaxKeys) ==
    IF Faulty(m)
    THEN [m |-> Tick(m), exc |-> FaultExc(m), code |-> FaultCode(m),
          Contents |-> <<>>, IsTruncated |-> FALSE, NextContinuationToken |-> None]
    ELSE LET matching == SortedKeys({k \in DOMAIN m.store :
                            /\ startswith(k, Prefix)
                            /\ ContinuationToken # None => KeyLess(ContinuationToken, k)})
             n == Min(MaxKeys, Len(matching))
         IN  [m |-> Tick(m), exc |-> "none", code |-> "none",
              Contents |-> SubSeq(matching, 1, n),
              IsTruncated |-> Len(matching) > n,
              NextContinuationToken |-> IF Len(matching) > n THEN matching[n] ELSE None]

(***************************************************************************)
(* The methods of Bucket.  A result is [m, ret, exc]: exc = "none" when    *)
(* the method returns ret, otherwise the exception that leaves the method. *)
(***************************************************************************)
Return(m, v) == [m |-> m, exc |-> "none", ret |-> v]

Raise(m, e) == [m |-> m, exc |-> e, ret |-> PyNone]

\* a local file: whether it exists, its base name and its content
LocalFile(exists, base, content) == [content |-> content, exists |-> exists, base |-> base]

\* lines 70-78: the handler reads e.response['Error']['Code'], so an
\* exception without a response raises AttributeError out of the handler
metadata_result(r) ==
    IF r.exc = "none" THEN Return(r.m, PyDict(r.ETag))
    ELSE IF HasResponse(r.exc) THEN Return(r.m, PyFalse)
    ELSE Raise(r.m, "AttributeError")

get_file_metadata(m, file_name) == metadata_result(head_object(m, file_name))

\* lines 107-118
upload_result(up) ==
    IF up.exc # "none" THEN Return(up.m, PyFalse) ELSE Return(up.m, PyTrue)

\* lines 102-118: the probe is outside every try block
upload_checked(probe, file, name, replace) ==
    IF probe.exc # "none" THEN probe
    ELSE IF Truthy(probe.ret) /\ ~replace THEN Return(probe.m, PyFalse)
    ELSE upload_result(client_upload_file(probe.m, file, name))

upload_file(m, file, file_name, replace) ==
    IF ~file.exists THEN Return(m, PyFalse)
    ELSE IF file_name = None
    THEN upload_checked(get_file_metadata(m, file.base), file, file.base, replace)
    ELSE upload_checked(get_file_metadata(m, file_name), file, file_name, replace)

\* variant of listing_result: the folder's own key is never taken out
listing_result_unstripped(object_list, folder_name) == PyList(object_list)

\* variant of listing_result: a folder that holds its own key only is
\* reported like an absent one
listing_result_falsy(object_list, folder_name) ==
    IF folder_name = None THEN PyList(object_list)
    ELSE IF object_list = <<folder_name>> THEN PyFalse
    ELSE IF object_list[1] = folder_name THEN PyList(Tail(object_list))
    ELSE PyList(object_list)

\* lines 171-176: the accumulated list, without the folder's own key when
\* that is the first key
listing_result(object_list, folder_name) ==
    IF folder_name = None THEN PyList(object_list)
    ELSE IF object_list[1] = folder_name THEN PyList(Tail(object_list))
    ELSE PyList(object_list)

RECURSIVE ListLoop(_, _, _, _, _)
\* variant of ListStep: a page replaces the accumulated list
\* (object_list = response['Contents']) instead of extending it
ListStep_overwrite(response, folder_name, check_folder, object_list) ==
    IF response.exc # "none" THEN Return(response.m, PyFalse)
    ELSE IF check_folder
    THEN IF response.Contents # <<>>
         THEN Return(response.m, PyInt(Len(response.Contents)))
         ELSE Return(response.m, PyFalse)
    ELSE IF response.Contents = <<>> /\ Len(object_list) = 0
    THEN Return(response.m, PyFalse)
    ELSE IF response.IsTruncated
    THEN ListLoop(response.m, folder_name, check_folder,
                  response.NextContinuationToken, response.Contents)
    ELSE Return(response.m, listing_result(response.Contents, folder_name))

\* lines 149-169: what one iteration does with the response
ListStep(response, folder_name, check_folder, object_list) ==
    IF response.exc # "none" THEN Return(response.m, PyFalse)
    ELSE IF check_folder
    THEN IF response.Contents # <<>>
         THEN Return(response.m, PyInt(Len(response.Contents)))
         ELSE Return(response.m, PyFalse)
    ELSE IF response.Contents = <<>> /\ Len(object_list) = 0
    THEN Return(response.m, PyFalse)
    ELSE IF response.IsTruncated
    THEN ListLoop(response.m, folder_name, check_folder,
                  response.NextContinuationToken, object_list \o response.Contents)
    ELSE Return(response.m, listing_result(object_list \o response.Contents, folder_name))

\* variant of ListLoop: the probe request carries no MaxKeys = 2
ListLoop_uncapped(m, folder_name, check_folder, continuation_token, object_list) ==
    ListStep(list_objects_v2(m, folder_name, continuation_token, m.page),
             folder_name, check_folder, object_list)

\* the while loop of get_object_list; folder_name is already normalised
ListLoop(m, folder_name, check_folder, continuation_token, object_list) ==
    ListStep(list_objects_v2(m, folder_name, continuation_token,
                             IF check_folder THEN 2 ELSE m.page),
             folder_name, check_folder, object_list)

get_object_list(m, folder_name, check_folder) ==
    ListLoop(m, IF folder_name = None THEN None ELSE slashed(folder_name),
             check_folder, None, <<>>)

\* lines 198-204
create_result(put) ==
    IF put.exc # "none" THEN Return(put.m, PyFalse) ELSE Return(put.m, PyTrue)

\* variant of create_checked: replace = True erases the keys of the folder
\* before it writes the new folder key
create_checked_erasing(probe, name, replace) ==
    IF Truthy(probe.ret) /\ ~replace THEN Return(probe.m, PyTrue)
    ELSE create_result(put_object(
             [probe.m EXCEPT !.store =
                 Remove(@, {k \in DOMAIN @ : replace /\ startswith(k, name)})],
             name))

\* lines 194-204
create_checked(probe, name, replace) ==
    IF Truthy(probe.ret) /\ ~replace THEN Return(probe.m, PyTrue)
    ELSE create_result(put_object(probe.m, name))

create_folder(m, folder_name, replace) ==
    create_checked(get_object_list(m, slashed(folder_name), TRUE),
                   slashed(folder_name), replace)

\* lines 222-228
delete_result(del) ==
    IF del.exc # "none" THEN Return(del.m, PyFalse) ELSE Return(del.m, PyTrue)

delete_request(m, object_name) == delete_result(client_delete_object(m, object_name))

\* variant of delete_checked: the count test is resp >= 1
delete_checked_strict(resp, object_name) ==
    IF ~Truthy(resp.ret) THEN Return(resp.m, PyFalse)
    ELSE IF resp.ret.n >= 1 THEN Return(resp.m, PyFalse)
    ELSE delete_request(resp.m, object_name)

\* lines 216-221
delete_checked(resp, object_name) ==
    IF ~Truthy(resp.ret) THEN Return(resp.m, PyFalse)
    ELSE IF resp.ret.n > 1 THEN Return(resp.m, PyFalse)
    ELSE delete_request(resp.m, object_name)

\* variant of delete_object: the folder probe is made for every key
delete_object_probe_all(m, object_name) ==
    delete_checked(get_object_list(m, object_name, TRUE), object_name)

delete_object(m, object_name) ==
    IF endswith(object_name, "/")
    THEN delete_checked(get_object_list(m, object_name, TRUE), object_name)
    ELSE delete_request(m, object_name)

\* variant of move_copied: the old key is not deleted
move_copied_keep(copy, old_name) ==
    IF copy.exc = "none" THEN Return(copy.m, PyTrue)
    ELSE IF HasResponse(copy.exc) THEN Return(copy.m, PyFalse)
    ELSE Raise(copy.m, "AttributeError")

\* variant of move_copied: a copy the store refuses is not an error, the
\* delete and the 'return True' follow it all the same
move_copied_finally(copy, old_name) ==
    IF copy.exc = "none" \/ HasResponse(copy.exc)
    THEN Return(delete_object(copy.m, old_name).m, PyTrue)
    ELSE Raise(copy.m, "AttributeError")

\* lines 241-249: the result of delete_object is not looked at
move_copied(copy, old_name) ==
    IF copy.exc = "none" THEN Return(delete_object(copy.m, old_name).m, PyTrue)
    ELSE IF HasResponse(copy.exc) THEN Return(copy.m, PyFalse)
    ELSE Raise(copy.m, "AttributeError")

move_file(m, old_name, new_name) ==
    move_copied(copy_object(m, old_name, new_name), old_name)

\* lines 260-270; generate_presigned_url signs locally: it is no request
\* to the store
link_result(probe, file_name) ==
    IF probe.exc # "none" THEN Return(probe.m, PyFalse)
    ELSE IF ~Truthy(probe.ret) THEN Return(probe.m, PyFalse)
    ELSE Return(probe.m, PyStr(file_name))

get_file_link(m, file_name) == link_result(get_file_metadata(m, file_name), file_name)

\* lines 288-294
purge_result(del) ==
    IF del.exc # "none" THEN Return(del.m, PyFalse) ELSE Return(del.m, PyTrue)

\* variant of purge_listed: only the first listed key is put in the request
purge_listed_first(objects) ==
    IF ~Truthy(objects.ret) THEN Return(objects.m, PyFalse)
    ELSE purge_result(delete_objects(objects.m, {objects.ret.keys[1]}))

\* lines 282-290
purge_listed(objects) ==
    IF ~Truthy(objects.ret) THEN Return(objects.m, PyFalse)
    ELSE purge_result(delete_objects(objects.m,
                        {objects.ret.keys[i] : i \in 1..Len(objects.ret.keys)}))

delete_folder_data(m, folder_name) ==
    purge_listed(get_object_list(m, slashed(folder_name), FALSE))

RECURSIVE MoveLoop(_, _, _, _, _)
\* an exception of move_file ends the loop
MoveNext(moved, objects, i, old_name, new_name) ==
    IF moved.exc # "none" THEN moved
    ELSE MoveLoop(moved.m, objects, i + 1, old_name, new_name)

\* lines 312-315: the for loop of move_folder over objects[i..]
MoveLoop(m, objects, i, old_name, new_name) ==
    IF i > Len(objects) THEN Return(m, PyNone)
    ELSE MoveNext(move_file(m, objects[i], str_replace(objects[i], old_name, new_name)),
                  objects, i, old_name, new_name)

\* lines 318-323: the method has no return statement on its successful path
move_folder_result(del) ==
    IF ~Truthy(del.ret) THEN Return(del.m, PyFalse) ELSE Return(del.m, PyNone)

move_folder_moved(loop, old_name) ==
    IF loop.exc # "none" THEN Return(loop.m, PyFalse)
    ELSE move_folder_result(delete_object(loop.m, old_name))

\* lines 311-315: iterating over False raises TypeError inside the try
move_folder_listed(objects, old_name, new_name) ==
    IF objects.ret.tag # "list" THEN Return(objects.m, PyFalse)
    ELSE move_folder_moved(MoveLoop(objects.m, objects.ret.keys, 1, old_name, new_name),
                           old_name)

\* lines 308-311
move_folder_made(made, old_name, new_name) ==
    IF ~Truthy(made.ret) THEN Return(made.m, PyFalse)
    ELSE move_folder_listed(get_object_list(made.m, old_name, FALSE), old_name, new_name)

move_folder(m, old_name, new_name) ==
    move_folder_made(create_folder(m, slashed(new_name), FALSE),
                     slashed(old_name), slashed(new_name))

(***************************************************************************)
(* The state machine.  store is the bucket.  last is the operation that    *)
(* has just completed: its name and arguments, the bucket before it (pre), *)
(* what it returned or raised, how many store requests it issued, and the  *)
(* request that failed, if one did.  chain tells how the operation follows *)
(* the one before it.  All store requests of one operation complete before *)
(* it returns (the core is synchronous and single-threaded).  frame is the *)
(* method that is running when an operation is followed request by         *)
(* request, and NoFrame otherwise.                                         *)
(***************************************************************************)
kA == <<"a">>
kF == <<"f", "/">>
kFX == <<"f", "/", "x">>
kFY == <<"f", "/", "y">>
kN == <<"n", "/">>
kNX == <<"n", "/", "x">>

\* the keys and folder names the callers pass
KeyArgs == {kA, kF, kFX, kFY, kN}
FileArgs == {kA, kFX, kFY}
FolderArgs == {<<"f">>, kF, kN}
PrefixArgs == {None} \cup FolderArgs
\* moves between file keys, and of a folder's own key
MoveArgs == (FileArgs \X FileArgs) \cup {<<kF, kN>>, <<kN, kF>>}
\* the content of the files the callers upload
Contents == {2}
Pages == 1..MaxPage

NoFault == [at |-> 0, kind |-> "none"]
Faults == {NoFault} \cup [at : 1..MaxFailAt, kind : {"code", "nocode"}]

NoFile == LocalFile(FALSE, None, 0)

\* the buckets an operation may find: any part of this one
BaseStore == (kA :> 1) @@ (kF :> 0) @@ (kFX :> 1) @@ (kFY :> 1) @@ (kNX :> 1)
InitStores == {[k \in K |-> BaseStore[k]] : K \in SUBSET DOMAIN BaseStore}

Idle ==
    [a |-> None, b |-> None, page |-> 0, calls |-> 0, writes |-> 0,
     exc |-> "none", file |-> NoFile, ret |-> PyNone, op |-> "idle",
     flag |-> FALSE, pre |-> <<>>, failed |-> 0, fault |-> "none"]

NoFrame ==
    [a |-> None, b |-> None, page |-> 0, exc |-> "none", ret |-> PyNone,
     object_list |-> <<>>, op |-> "none", flag |-> FALSE, pre |-> <<>>,
     failed |-> FALSE, pc |-> "idle", token |-> None, sent |-> <<>>]

Follows(op, a, b) ==
    IF /\ op = "delete_object" /\ last.op = "delete_folder_data"
       /\ Truthy(last.ret) /\ a = slashed(last.a)
    THEN "purged"
    ELSE IF /\ op = "move_file" /\ last.op = "move_file" /\ Truthy(last.ret)
            /\ last.a # last.b /\ last.b \notin DOMAIN last.pre
            /\ a = last.b /\ b = last.a
    THEN "moved_back"
    ELSE IF op = "delete_object" /\ last.op = "delete_object" /\ a = last.a
    THEN "repeated"
    ELSE "none"

\* the record of a completed operation with result r
Outcome(op, a, b, flag, file, page, F, r) ==
    [a |-> a, b |-> b, page |-> page,
     calls |-> r.m.calls, writes |-> r.m.writes,
     exc |-> r.exc, file |-> file, ret |-> r.ret, op |-> op,
     flag |-> flag, pre |-> store,
     failed |-> IF F.at >= 1 /\ F.at <= r.m.calls THEN F.at ELSE 0,
     fault |-> IF F.at >= 1 /\ F.at <= r.m.calls THEN F.kind ELSE "none"]

GetFileMetadata(k, F) ==
    /\ store' = get_file_metadata(Machine(store, MaxPage, F.at, F.kind), k).m.store
    /\ last' = Outcome("get_file_metadata", k, None, FALSE, NoFile, MaxPage, F,
                       get_file_metadata(Machine(store, MaxPage, F.at, F.kind), k))
    /\ chain' = Follows("get_file_metadata", k, None)
    /\ UNCHANGED frame

UploadFile(file, name, replace, F) ==
    /\ store' = upload_file(Machine(store, MaxPage, F.at, F.kind), file, name, replace).m.store
    /\ last' = Outcome("upload_file", name, None, replace, file, MaxPage, F,
                       upload_file(Machine(store, MaxPage, F.at, F.kind), file, name, replace))
    /\ chain' = Follows("upload_file", name, None)
    /\ UNCHANGED frame

GetObjectList(prefix, check, page, F) ==
    /\ store' = get_object_list(Machine(store, page, F.at, F.kind), prefix, check).m.store
    /\ last' = Outcome("get_object_list", prefix, None, check, NoFile, page, F,
                       get_object_list(Machine(store, page, F.at, F.kind), prefix, check))
    /\ chain' = Follows("get_object_list", prefix, None)
    /\ UNCHANGED frame

CreateFolder(name, replace, F) ==
    /\ store' = create_folder(Machine(store, MaxPage, F.at, F.kind), name, replace).m.store
    /\ last' = Outcome("create_folder", name, None, replace, NoFile, MaxPage, F,
                       create_folder(Machine(store, MaxPage, F.at, F.kind), name, replace))
    /\ chain' = Follows("create_folder", name, None)
    /\ UNCHANGED frame

DeleteObject(k, F) ==
    /\ store' = delete_object(Machine(store, MaxPage, F.at, F.kind), k).m.store
    /\ last' = Outcome("delete_object", k, None, FALSE, NoFile, MaxPage, F,
                       delete_object(Machine(store, MaxPage, F.at, F.kind), k))
    /\ chain' = Follows("delete_object", k, None)
    /\ UNCHANGED frame

MoveFile(old, new, F) ==
    /\ store' = move_file(Machine(store, MaxPage, F.at, F.kind), old, new).m.store
    /\ last' = Outcome("move_file", old, new, FALSE, NoFile, MaxPage, F,
                       move_file(Machine(store, MaxPage, F.at, F.kind), old, new))
    /\ chain' = Follows("move_file", old, new)
    /\ UNCHANGED frame

GetFileLink(k, F) ==
    /\ store' = get_file_link(Machine(store, MaxPage, F.at, F.kind), k).m.store
    /\ last' = Outcome("get_file_link", k, None, FALSE, NoFile, MaxPage, F,
                       get_file_link(Machine(store, MaxPage, F.at, F.kind), k))
    /\ chain' = Follows("get_file_link", k, None)
    /\ UNCHANGED frame

DeleteFolderData(name, page, F) ==
    /\ store' = delete_folder_data(Machine(store, page, F.at, F.kind), name).m.store
    /\ last' = Outcome("delete_folder_data", name, None, FALSE, NoFile, page, F,
                       delete_folder_data(Machine(store, page, F.at, F.kind), name))
    /\ chain' = Follows("delete_folder_data", name, None)
    /\ UNCHANGED frame

MoveFolder(old, new, page, F) ==
    /\ store' = move_folder(Machine(store, page, F.at, F.kind), old, new).m.store
    /\ last' = Outcome("move_folder", old, new, FALSE, NoFile, page, F,
                       move_folder(Machine(store, page, F.at, F.kind), old, new))
    /\ chain' = Follows("move_folder", old, new)
    /\ UNCHANGED frame

\* the caller has taken the result
Returned ==
    /\ last.op # "idle"
    /\ last' = Idle
    /\ chain' = "none"
    /\ UNCHANGED <<store, frame>>

Init ==
    /\ store \in InitStores
    /\ last = Idle
    /\ chain = "none"
    /\ frame = NoFrame

CallGetFileMetadata == last.op = "idle" /\ \E k \in KeyArgs, F \in Faults : GetFileMetadata(k, F)

CallUploadFile ==
    /\ last.op = "idle"
    /\ \E exists \in BOOLEAN, c \in Contents, name \in FileArgs \cup {None},
          replace \in BOOLEAN, F \in Faults :
            UploadFile(LocalFile(exists, kA, c), name, replace, F)

CallGetObjectList ==
    /\ last.op = "idle"
    /\ \E prefix \in PrefixArgs, check \in BOOLEAN, page \in Pages, F \in Faults :
            GetObjectList(prefix, check, page, F)

CallCreateFolder ==
    /\ last.op = "idle"
    /\ \E name \in FolderArgs, replace \in BOOLEAN, F \in Faults : CreateFolder(name, replace, F)

CallDeleteObject == last.op = "idle" /\ \E k \in KeyArgs, F \in Faults : DeleteObject(k, F)

CallMoveFile ==
    last.op = "idle" /\ \E mv \in MoveArgs, F \in Faults : MoveFile(mv[1], mv[2], F)

CallGetFileLink == last.op = "idle" /\ \E k \in KeyArgs, F \in Faults : GetFileLink(k, F)

CallDeleteFolderData ==
    /\ last.op = "idle"
    /\ \E name \in FolderArgs, page \in Pages, F \in Faults : DeleteFolderData(name, page, F)

CallMoveFolder ==
    /\ last.op = "idle"
    /\ \E old \in FolderArgs, new \in FolderArgs, page \in Pages, F \in Faults :
            MoveFolder(old, new, page, F)

Next ==
    \/ CallGetFileMetadata
    \/ CallUploadFile
    \/ CallGetObjectList
    \/ CallCreateFolder
    \/ CallDeleteObject
    \/ CallMoveFile
    \/ CallGetFileLink
    \/ CallDeleteFolderData
    \/ CallMoveFolder
    \/ Returned

Spec == Init /\ [][Next]_vars

(***************************************************************************)
(* The same operations called back to back on a reliable store: no         *)
(* request fails, and the next call starts from the bucket the last one    *)
(* left.                                                                   *)
(***************************************************************************)
NextUploadFile ==
    \E c \in Contents, name \in FileArgs, replace \in BOOLEAN :
        UploadFile(LocalFile(TRUE, kA, c), name, replace, NoFault)

NextCreateFolder ==
    \E name \in FolderArgs, replace \in BOOLEAN :
        CreateFolder(name, replace, NoFault)

NextDeleteObject == \E k \in KeyArgs : DeleteObject(k, NoFault)

NextMoveFile == \E mv \in MoveArgs : MoveFile(mv[1], mv[2], NoFault)

NextDeleteFolderData ==
    \E name \in FolderArgs, page \in Pages :
        DeleteFolderData(name, page, NoFault)

SeqNext ==
    \/ NextUploadFile
    \/ NextCreateFolder
    \/ NextDeleteObject
    \/ NextMoveFile
    \/ NextDeleteFolderData

SeqSpec == Init /\ [][SeqNext]_vars

(***************************************************************************)
(* Folders that hold sub-folders, on a reliable store: the folder          *)
(* operations called back to back on the parts of a bucket with the folder *)
(* f/, its sub-folder f/f/ and the folder n/.                              *)
(***************************************************************************)
kFF == <<"f", "/", "f", "/">>
kFFX == <<"f", "/", "f", "/", "x">>

TreeStore == (kF :> 0) @@ (kFF :> 0) @@ (kFFX :> 2) @@ (kFX :> 1) @@ (kN :> 0)
\* the buckets built folder by folder: every folder a key lies in has its
\* own folder key
TreeStores ==
    {[k \in K |-> TreeStore[k]] :
        K \in {J \in SUBSET DOMAIN TreeStore :
                  \A k \in J : \A i \in 1..(Len(k) - 1) :
                      k[i] = "/" => SubSeq(k, 1, i) \in J}}

\* the folders the callers name, and the moves between folders of which
\* none lies inside the other
TreeFolders == {kF, kFF, kN}
TreeMoves == {<<kF, kN>>, <<kN, kF>>, <<kFF, kN>>}

TreeInit ==
    /\ store \in TreeStores
    /\ last = Idle
    /\ chain = "none"
    /\ frame = NoFrame

TreeGetObjectList ==
    \E prefix \in TreeFolders, page \in Pages :
        GetObjectList(prefix, FALSE, page, NoFault)

TreeDeleteObject == \E k \in TreeFolders : DeleteObject(k, NoFault)

TreeDeleteFolderData ==
    \E name \in TreeFolders, page \in Pages :
        DeleteFolderData(name, page, NoFault)

TreeMoveFolder ==
    \E mv \in TreeMoves, page \in Pages :
        MoveFolder(mv[1], mv[2], page, NoFault)

TreeNext ==
    \/ TreeGetObjectList
    \/ TreeDeleteObject
    \/ TreeDeleteFolderData
    \/ TreeMoveFolder

TreeSpec == TreeInit /\ [][TreeNext]_vars

(***************************************************************************)
(* get_object_list and move_file followed request by request: the frame of *)
(* the running method holds its arguments and local variables, one action  *)
(* is one store request with what the code does with the answer.  sent is  *)
(* the list of the continuation tokens of the requests issued so far.  A   *)
(* method that has been called runs on until it returns: the core is       *)
(* synchronous, nothing else runs in between.                              *)
(***************************************************************************)
\* the failures of the requests of one step (delete_object issues up to two)
StepFaults == {F \in Faults : F.at <= 2}

\* line 178-180 and the return statements of the loop
ListDone(v, failed) ==
    [frame EXCEPT !.pc = "done", !.ret = v,
                  !.sent = Append(@, frame.token), !.failed = failed]

\* variant of ListPaged: continuation_token is not set from the response
ListPaged_stale(response, folder_name) ==
    /\ frame' =
          IF response.exc # "none" THEN ListDone(PyFalse, TRUE)
          ELSE IF frame.flag
          THEN IF response.Contents # <<>>
               THEN ListDone(PyInt(Len(response.Contents)), FALSE)
               ELSE ListDone(PyFalse, FALSE)
          ELSE IF response.Contents = <<>> /\ Len(frame.object_list) = 0
          THEN ListDone(PyFalse, FALSE)
          ELSE IF response.IsTruncated
          THEN [frame EXCEPT !.object_list = @ \o response.Contents,
                             !.sent = Append(@, frame.token)]
          ELSE ListDone(listing_result(frame.object_list \o response.Contents,
                                       folder_name), FALSE)
    /\ UNCHANGED <<store, last, chain>>

\* lines 149-169: one iteration of the while loop, from the response on
ListPaged(response, folder_name) ==
    /\ frame' =
          IF response.exc # "none" THEN ListDone(PyFalse, TRUE)
          ELSE IF frame.flag
          THEN IF response.Contents # <<>>
               THEN ListDone(PyInt(Len(response.Contents)), FALSE)
               ELSE ListDone(PyFalse, FALSE)
          ELSE IF response.Contents = <<>> /\ Len(frame.object_list) = 0
          THEN ListDone(PyFalse, FALSE)
          ELSE IF response.IsTruncated
          THEN [frame EXCEPT !.token = response.NextContinuationToken,
                             !.object_list = @ \o response.Contents,
                             !.sent = Append(@, frame.token)]
          ELSE ListDone(listing_result(frame.object_list \o response.Contents,
                                       folder_name), FALSE)
    /\ UNCHANGED <<store, last, chain>>

\* lines 132-133: object_list = [], continuation_token = None
StartList ==
    /\ frame.pc = "idle"
    /\ \E prefix \in PrefixArgs, check \in BOOLEAN, page \in Pages :
          frame' = [NoFrame EXCEPT !.pc = "list", !.op = "get_object_list",
                                   !.a = prefix, !.flag = check,
                                   !.page = page, !.pre = store]
    /\ UNCHANGED <<store, last, chain>>

\* lines 135-147: the request of one iteration
ListRequest(F, folder_name) ==
    \E response \in {list_objects_v2(Machine(store, frame.page, F.at, F.kind),
                                     folder_name, frame.token,
                                     IF frame.flag THEN 2 ELSE frame.page)} :
        ListPaged(response, folder_name)

ListPage ==
    /\ frame.pc = "list"
    /\ \E F \in StepFaults :
          ListRequest(F, IF frame.a = None THEN None ELSE slashed(frame.a))

StartMove ==
    /\ frame.pc = "idle"
    /\ \E mv \in MoveArgs :
          frame' = [NoFrame EXCEPT !.pc = "copy", !.op = "move_file",
                                   !.a = mv[1], !.b = mv[2], !.pre = store]
    /\ UNCHANGED <<store, last, chain>>

\* variant of MoveCopied: a failed copy is not noticed, the delete follows
MoveCopied_unchecked(copy, failed) ==
    /\ store' = copy.m.store
    /\ frame' = [frame EXCEPT !.pc = "delete", !.failed = failed]
    /\ UNCHANGED <<last, chain>>

\* lines 240-249 after the copy request: on to the delete, or the handler
MoveCopied(copy, failed) ==
    /\ store' = copy.m.store
    /\ frame' =
          IF copy.exc = "none" THEN [frame EXCEPT !.pc = "delete"]
          ELSE IF HasResponse(copy.exc)
          THEN [frame EXCEPT !.pc = "done", !.ret = PyFalse, !.failed = failed]
          ELSE [frame EXCEPT !.pc = "done", !.exc = "AttributeError",
                             !.failed = failed]
    /\ UNCHANGED <<last, chain>>

MoveCopyStep ==
    /\ frame.pc = "copy"
    /\ \E F \in StepFaults :
          MoveCopied(copy_object(Machine(store, MaxPage, F.at, F.kind),
                                 frame.a, frame.b),
                     F.at = 1)

\* lines 242-244: the result of delete_object is dropped
MoveDeleted(del, failed) ==
    /\ store' = del.m.store
    /\ frame' = [frame EXCEPT !.pc = "done", !.ret = PyTrue, !.failed = failed]
    /\ UNCHANGED <<last, chain>>

MoveDeleteStep ==
    /\ frame.pc = "delete"
    /\ \E F \in StepFaults :
          MoveDeleted(delete_object(Machine(store, MaxPage, F.at, F.kind), frame.a),
                      F.at >= 1 /\ F.at <= (IF endswith(frame.a, "/") THEN 2 ELSE 1))

\* the method has returned to its caller
StepReturn ==
    /\ frame.pc = "done"
    /\ frame' = NoFrame
    /\ UNCHANGED <<store, last, chain>>

StepNext ==
    \/ StartList
    \/ ListPage
    \/ StartMove
    \/ MoveCopyStep
    \/ MoveDeleteStep
    \/ StepReturn

StepSpec ==
    /\ Init
    /\ [][StepNext]_vars
    /\ WF_vars(ListPage)
    /\ WF_vars(MoveCopyStep)
    /\ WF_vars(MoveDeleteStep)

(***************************************************************************)
(* Properties.                                                             *)
(***************************************************************************)
\* the keys of bucket s that start with prefix p (all keys when p is None)
Under(s, p) == {k \in DOMAIN s : startswith(k, p)}

Elems(seq) == {seq[i] : i \in 1..Len(seq)}

Ascending(seq) == \A i \in 1..Len(seq), j \in 1..Len(seq) : i < j => KeyLess(seq[i], seq[j])

Listed == last.op = "get_object_list" /\ ~last.flag /\ last.fault = "none"

ListedPrefix == IF last.a = None THEN None ELSE slashed(last.a)

\* C1: a listing (check_folder = False) of a prefix that holds more keys than
\* one page returns, when no store request fails, exactly the keys under the
\* prefix except the folder's own key, each once, in the store's key order.
PaginationCorrect ==
    (Listed /\ Cardinality(Under(last.pre, ListedPrefix)) > last.page) =>
        /\ last.exc = "none"
        /\ last.ret.tag = "list"
        /\ Elems(last.ret.keys) = Under(last.pre, ListedPrefix) \ {ListedPrefix}
        /\ Len(last.ret.keys) = Cardinality(Elems(last.ret.keys))
        /\ Ascending(last.ret.keys)

\* a listing of f/ = {f/, f/x, f/y} in pages of one key: three requests
PaginationWitness ==
    /\ Listed
    /\ last.page = 1
    /\ last.calls >= 3
    /\ ListedPrefix = kF
    /\ Under(last.pre, kF) = {kF, kFX, kFY}
    /\ last.ret = PyList(<<kFX, kFY>>)

\* the name upload_file stores the file under
UploadName == IF last.a = None THEN last.file.base ELSE last.a

\* C2: an upload to a key that exists, with replace = False, returns a
\* failure, issues no put/transfer request and leaves the bucket as it was;
\* with replace = True (and no failing request) it returns True and the key
\* holds the uploaded content.
UploadDuplicateGuard ==
    (last.op = "upload_file" /\ last.file.exists /\ UploadName \in DOMAIN last.pre) =>
        /\ ~last.flag =>
              /\ ~Truthy(last.ret)
              /\ last.writes = 0
              /\ store = last.pre
        /\ (last.flag /\ last.fault = "none") =>
              /\ last.ret = PyTrue
              /\ store[UploadName] = last.file.content

\* the content keys of folder f: the keys under f other than f itself
ContentKeys(s, f) == Under(s, f) \ {f}

\* C3: delete_object on a folder key that has content keys under it returns
\* a failure and removes no key, whether or not the folder's own key exists.
NonEmptyFolderGuard ==
    (/\ last.op = "delete_object"
     /\ endswith(last.a, "/")
     /\ ContentKeys(last.pre, last.a) # {}) =>
        /\ ~Truthy(last.ret)
        /\ store = last.pre

\* the two steps of the last move_file, run again on the bucket it found
MoveCopy == copy_object(Machine(last.pre, last.page, last.failed, last.fault), last.a, last.b)

MoveDelete == delete_object(MoveCopy.m, last.a)

\* C4: when the copy of move_file succeeds and the delete of the old key
\* fails (a store error, or the delete is refused), move_file returns a
\* failure and the bucket holds both keys.
MoveFilePartialFailure ==
    (/\ last.op = "move_file"
     /\ MoveCopy.exc = "none"
     /\ ~Truthy(MoveDelete.ret)) =>
        /\ last.exc = "none"
        /\ ~Truthy(last.ret)
        /\ {last.a, last.b} \subseteq DOMAIN store

IsFileKey(k) == k # None /\ ~endswith(k, "/")

\* C6: for distinct file keys a and b, a present and b absent, move_file(a, b)
\* followed by move_file(b, a) leaves a with its content, b absent and every
\* other key as it was.
MoveRoundTrip ==
    [][(/\ last.op = "move_file" /\ last.fault = "none"
        /\ IsFileKey(last.a) /\ IsFileKey(last.b) /\ last.a # last.b
        /\ last.a \in DOMAIN last.pre /\ last.b \notin DOMAIN last.pre
        /\ last'.op = "move_file" /\ last'.fault = "none"
        /\ last'.a = last.b /\ last'.b = last.a) =>
           /\ Truthy(last.ret) /\ Truthy(last'.ret)
           /\ last.a \in DOMAIN store' /\ store'[last.a] = last.pre[last.a]
           /\ last.b \notin DOMAIN store'
           /\ \A k \in (DOMAIN last.pre \cup DOMAIN store') \ {last.a, last.b} :
                 k \in DOMAIN last.pre /\ k \in DOMAIN store' /\ store'[k] = last.pre[k]]_vars

\* the move back has run: its source is gone again, its destination is there
MoveRoundTripWitness ==
    /\ chain = "moved_back"
    /\ last.op = "move_file"
    /\ IsFileKey(last.a) /\ IsFileKey(last.b)
    /\ last.a \in DOMAIN last.pre /\ last.b \notin DOMAIN last.pre
    /\ last.b \in DOMAIN store /\ last.a \notin DOMAIN store

SentinelExcluded ==
    (Listed /\ last.a # None /\ Under(last.pre, ListedPrefix) # {}) =>
        /\ last.ret.tag = "list"
        /\ ListedPrefix \notin Elems(last.ret.keys)
        /\ Elems(last.ret.keys) = ContentKeys(last.pre, ListedPrefix)
        /\ Len(last.ret.keys) = Cardinality(ContentKeys(last.pre, ListedPrefix))

\* the folder f/ with its sentinel and two content keys, listed
SentinelExcludedWitness ==
    /\ Listed
    /\ ListedPrefix = kF
    /\ {kF, kFX, kFY} \subseteq DOMAIN last.pre
    /\ last.ret = PyList(<<kFX, kFY>>)

\* C9: whatever store request fails and however it fails, every operation
\* ends by returning a value: no exception leaves it.
NoErrorEscapes == last.exc = "none"

\* C10: no operation other than upload_file with replace = True changes the
\* content of a file key that exists (every request succeeding).
NoSilentOverwrite ==
    \A k \in DOMAIN last.pre \cap DOMAIN store :
        (last.fault = "none" /\ IsFileKey(k) /\ store[k] # last.pre[k]) =>
            (last.op = "upload_file" /\ last.flag)

\* the key move_folder moves key k of folder old to
Moved(k, old, new) == str_replace(k, old, new)

\* the last move_folder has done all of its steps: the destination folder
\* exists, every key that was under the source is under the destination with
\* its content, and nothing is left under the source
MoveFolderDone ==
    /\ last.op = "move_folder"
    /\ last.fault = "none"
    /\ Under(last.pre, slashed(last.a)) # {}
    /\ slashed(last.b) \in DOMAIN store
    /\ \A k \in ContentKeys(last.pre, slashed(last.a)) :
          /\ Moved(k, slashed(last.a), slashed(last.b)) \in DOMAIN store
          /\ store[Moved(k, slashed(last.a), slashed(last.b))] = last.pre[k]
    /\ Under(store, slashed(last.a)) = {}

\* C11: a move_folder that has created the destination folder, moved every
\* key and deleted the source folder, no request failing, returns a truthy
\* value.
MoveFolderReturnsSuccess == MoveFolderDone => (last.exc = "none" /\ Truthy(last.ret))

Probed == last.op = "get_object_list" /\ last.flag

\* C12: a probe (check_folder = True) issues exactly one list request; when
\* that request succeeds it returns False if no key is under the normalised
\* prefix and otherwise the number of keys under it, the folder's own key
\* included, capped at 2.
ProbeResult ==
    Probed =>
        /\ last.exc = "none"
        /\ last.calls = 1
        /\ store = last.pre
        /\ last.fault = "none" =>
              last.ret = IF Under(last.pre, ListedPrefix) = {} THEN PyFalse
                         ELSE PyInt(Min(2, Cardinality(Under(last.pre, ListedPrefix))))

\* a probe of f/ = {f/, f/x, f/y} against a store that pages by one key
ProbeWitness ==
    /\ Probed
    /\ last.page = 1
    /\ ListedPrefix = kF
    /\ Under(last.pre, kF) = {kF, kFX, kFY}
    /\ last.calls = 1
    /\ last.ret = PyInt(2)

\* buckets s and t hold the same keys with the same content, key f aside
SameExcept(s, t, f) ==
    \A k \in (DOMAIN s \cup DOMAIN t) \ {f} :
        k \in DOMAIN s /\ k \in DOMAIN t /\ s[k] = t[k]

ListingAbsentVsEmpty ==
    /\ Listed =>
          /\ (last.ret = PyFalse) <=> (Under(last.pre, ListedPrefix) = {})
          /\ (last.a # None /\ Under(last.pre, ListedPrefix) = {ListedPrefix}) =>
                last.ret = PyList(<<>>)
    /\ (/\ last.op = "delete_folder_data"
        /\ last.fault = "none"
        /\ Under(last.pre, slashed(last.a)) \subseteq {slashed(last.a)}) =>
          /\ last.ret = PyFalse
          /\ store = last.pre
    /\ (last.op = "move_folder" /\ last.fault = "none" /\ slashed(last.a) # slashed(last.b)) =>
          /\ Under(last.pre, slashed(last.a)) = {} => last.ret = PyFalse
          /\ Under(last.pre, slashed(last.a)) = {slashed(last.a)} =>
                /\ last.ret # PyFalse
                /\ slashed(last.a) \notin DOMAIN store

\* the listing of the folder f/ that holds only its own key
ListingEmptyWitness ==
    /\ Listed
    /\ ListedPrefix = kF
    /\ Under(last.pre, kF) = {kF}
    /\ last.ret = PyList(<<>>)

\* C15: move_file of a key that is not in the bucket leaves the bucket as it
\* was, whatever the store answers; when the store answers the copy request
\* (with its not-found error, or with any other service error) move_file
\* returns False.
MoveMissingSource ==
    (last.op = "move_file" /\ last.a \notin DOMAIN last.pre) =>
        /\ store = last.pre
        /\ last.fault # "nocode" =>
              /\ last.exc = "none"
              /\ last.ret = PyFalse

\* move_file of an absent key onto a key that exists
MoveMissingSourceWitness ==
    /\ last.op = "move_file"
    /\ last.fault = "none"
    /\ last.a \notin DOMAIN last.pre
    /\ last.b \in DOMAIN last.pre
    /\ last.a # last.b
    /\ last.ret = PyFalse
    /\ store = last.pre

\* neither folder lies inside the other
Disjoint(f, g) == ~startswith(f, g) /\ ~startswith(g, f)

\* C16: after move_folder(old, new) between disjoint folders on a reliable
\* store, every key that was under old/ (sub-folder keys and the keys inside
\* them included) is under new/ with its content, the key new/ exists and no
\* key is left under old/.
MoveFolderEndState ==
    (/\ last.op = "move_folder"
     /\ last.fault = "none"
     /\ Disjoint(slashed(last.a), slashed(last.b))) =>
        /\ \A k \in ContentKeys(last.pre, slashed(last.a)) :
              /\ Moved(k, slashed(last.a), slashed(last.b)) \in DOMAIN store
              /\ store[Moved(k, slashed(last.a), slashed(last.b))] = last.pre[k]
        /\ slashed(last.b) \in DOMAIN store
        /\ Under(store, slashed(last.a)) = {}

Purged == last.op = "delete_folder_data" /\ last.fault = "none"

MoveFolderMissingSource ==
    (/\ last.op = "move_folder"
     /\ last.fault = "none"
     /\ Under(last.pre, slashed(last.a)) = {}) =>
        /\ ~Truthy(last.ret)
        /\ store = last.pre

\* C18: while move_file(old, new) runs, for distinct keys and old present,
\* and after it has returned or raised, the content old had is in the bucket
\* under old or under new: before the copy, between the copy and the delete,
\* after the delete, and when the copy or the delete fails.
MoveKeepsContent ==
    (/\ frame.op = "move_file"
     /\ frame.a # frame.b
     /\ frame.a \in DOMAIN frame.pre) =>
        \/ frame.a \in DOMAIN store /\ store[frame.a] = frame.pre[frame.a]
        \/ frame.b \in DOMAIN store /\ store[frame.b] = frame.pre[frame.a]

\* between the copy and the delete: the content is under both keys
MoveKeepsContentWitness ==
    /\ frame.op = "move_file"
    /\ frame.pc = "delete"
    /\ frame.a = kA
    /\ frame.b = kFX
    /\ kFX \notin DOMAIN frame.pre
    /\ {kA, kFX} \subseteq DOMAIN store
    /\ store[kFX] = frame.pre[kA]

\* the number of keys under the prefix of the running listing
Matching ==
    Cardinality(Under(frame.pre, IF frame.a = None THEN None ELSE slashed(frame.a)))

\* no continuation token is sent twice, and a listing that has returned with
\* no request failed has sent ceil(N / p) requests for N > 0 keys under the
\* prefix and pages of p keys, and one request for N = 0
ListRequests ==
    frame.op = "get_object_list" =>
        /\ \A i \in 1..Len(frame.sent), j \in 1..Len(frame.sent) :
              i # j => frame.sent[i] # frame.sent[j]
        /\ (frame.pc = "done" /\ ~frame.flag /\ ~frame.failed) =>
              Len(frame.sent) = IF Matching = 0 THEN 1
                                ELSE (Matching + frame.page - 1) \div frame.page

\* C20: the pagination loop terminates: a listing that has been called
\* returns, after one list request per page (ceil(N / p) of them for N > 0
\* keys and pages of p keys), and never sends the same continuation token
\* twice.
ListTerminates ==
    /\ []ListRequests
    /\ (frame.pc = "list") ~> (frame.pc = "done")

\* the listing of f/ = {f/, f/x, f/y} in pages of one key has returned after
\* three requests
ListTerminatesWitness ==
    /\ frame.op = "get_object_list"
    /\ frame.pc = "done"
    /\ ~frame.flag /\ ~frame.failed
    /\ frame.page = 1
    /\ frame.a = kF
    /\ Under(frame.pre, kF) = {kF, kFX, kFY}
    /\ frame.sent = <<None, kF, kFX>>
    /\ frame.ret = PyList(<<kFX, kFY>>)

====
